---- MODULE Spec2Model ----
(***************************************************************************)
(* Model of the repository synchronisation handler (src/src/main.rs,       *)
(* function_handler) and of its data types (src/src/types.rs).             *)
(*                                                                         *)
(* One invocation receives a payload, checks the shared secret, resolves   *)
(* the project, overwrites the project's attributes, deletes repositories  *)
(* by url and then, per entry of repos_to_add, inserts a repository row,   *)
(* fetches one page of open issues and inserts the non pull request ones.  *)
(*                                                                         *)
(* Strings that the code takes apart (urls) are sequences of one-character *)
(* strings.  Option<T> is a sequence of length 0 (None / SQL NULL) or 1    *)
(* (Some).  The three tables are the variables projects, repositories and  *)
(* issues.                                                                 *)
(***************************************************************************)
EXTENDS Integers, Sequences, FiniteSets, TLC

VARIABLES
    projects,               \* table projects: id -> row
    repositories,           \* table repositories: set of rows
    issues,                 \* table issues: set of rows
    nextRepoId,             \* the id sequence of table repositories
    pc,                     \* position of the handler
    payload,                \* the parsed Payload
    project_id,             \* main.rs:44
    rm,                     \* index of the loop over repos_to_remove
    k,                      \* index of the loop over repos_to_add
    repo_id,                \* main.rs:89
    page,                   \* main.rs:91, the items of the fetched page
    total_issues_imported,  \* main.rs:79
    response,               \* what the invocation returned
    log,                    \* history: the statements and calls issued, in order
    store0,                 \* history: the tables when the payload arrived
    fetched,                \* history: per entry of repos_to_add, the row id and the page fetched
    addedFor,               \* history: which url each engine-made repository row was added for
    failedAt,               \* history: the position at which the invocation failed
    resent,                 \* history: "no" in a first invocation, else what went before it
    url_arg,                \* the argument of a call of RepoInfo::from_url on its own
    located                 \* whether that call was made, and its result

vars == <<projects, repositories, issues, nextRepoId, pc, payload, project_id, rm, k,
          repo_id, page, total_issues_imported, response, log, store0, fetched,
          addedFor, failedAt, resent, url_arg, located>>

store == <<projects, repositories, issues, nextRepoId>>
locals == <<project_id, rm, k, repo_id, page, total_issues_imported>>
call == <<url_arg, located>>
history == <<store0, fetched, addedFor, resent, call>>

(***************************************************************************)
(* Bounds of the model.                                                    *)
(***************************************************************************)
MaxRepos == 2      \* longest repos_to_add and repos_to_remove drawn
MaxPage == 2       \* most entries the remote API answers with
MaxUrlLen == 4     \* longest url given to from_url on its own

(***************************************************************************)
(* Program constants.                                                      *)
(***************************************************************************)
PerPage == 100     \* .per_page(100)

None == <<>>
Some(x) == <<x>>

\* The configured secret, env::var("SECRET").
SECRET == "s3cret"

(***************************************************************************)
(* types.rs: RepoInfo::from_url.                                           *)
(***************************************************************************)
\* Variant of trim_end_matches: one trailing occurrence is removed.
trim_end_matches_Once(s, c) ==
    IF Len(s) > 0 /\ s[Len(s)] = c THEN SubSeq(s, 1, Len(s) - 1) ELSE s

\* str::trim_end_matches('/'): every trailing occurrence of c is removed.
RECURSIVE trim_end_matches(_, _)
trim_end_matches(s, c) ==
    IF Len(s) > 0 /\ s[Len(s)] = c
    THEN trim_end_matches(SubSeq(s, 1, Len(s) - 1), c)
    ELSE s

\* str::split('/'): the pieces between separators, empty pieces included;
\* a string without separator is one piece.
RECURSIVE split(_, _)
split(s, c) ==
    IF \E i \in 1..Len(s) : s[i] = c
    THEN LET i == CHOOSE j \in 1..Len(s) :
                      s[j] = c /\ \A h \in 1..(j - 1) : s[h] # c
         IN  <<SubSeq(s, 1, i - 1)>> \o split(SubSeq(s, i + 1, Len(s)), c)
    ELSE <<s>>

from_url(url) ==
    LET parts == split(trim_end_matches(url, "/"), "/")
    IN  IF Len(parts) >= 2
        THEN Some([owner |-> parts[Len(parts) - 1], name |-> parts[Len(parts)]])
        ELSE None

(***************************************************************************)
(* types.rs: impl From<Issue> for KudosIssue, and the filter of main.rs.   *)
(***************************************************************************)
RECURSIVE MapNames(_)
MapNames(labels) ==
    IF labels = <<>> THEN <<>>
    ELSE <<labels[1].name>> \o MapNames(Tail(labels))

\* `value.number as i64` keeps every number below 2^63, and the numbers drawn
\* here are that small.
KudosIssueFrom(value) ==
    [number           |-> value.number,
     title            |-> value.title,
     html_url         |-> value.html_url,
     issue_created_at |-> value.created_at,
     issue_updated_at |-> value.updated_at,
     user             |-> value.user.login,
     labels           |-> MapNames(value.labels)]

NotCalled == [done |-> FALSE, result |-> None]

\* Variant of FilterIssues: pull requests are kept.
RECURSIVE FilterIssues_KeepPulls(_)
FilterIssues_KeepPulls(items) ==
    IF items = <<>> THEN <<>>
    ELSE <<KudosIssueFrom(items[1])>> \o FilterIssues_KeepPulls(Tail(items))

\* page.items.into_iter().filter_map(|issue| issue.pull_request.is_none().then(..))
RECURSIVE FilterIssues(_)
FilterIssues(items) ==
    IF items = <<>> THEN <<>>
    ELSE (IF items[1].pull_request = None
          THEN <<KudosIssueFrom(items[1])>> ELSE <<>>)
         \o FilterIssues(Tail(items))

(***************************************************************************)
(* main.rs:114-144: the batch insert statement and its bound values.       *)
(***************************************************************************)
\* The placeholder numbers of row i (0-based in the code, i + 1 here).
Placeholders(filtered_issues) ==
    [i \in 1..Len(filtered_issues) |->
        <<(i - 1) * 5 + 1, (i - 1) * 5 + 2, (i - 1) * 5 + 3, (i - 1) * 5 + 4, (i - 1) * 5 + 5>>]

\* Variant of Binds: number and issue_created_at are bound in each other's place.
RECURSIVE Binds_Swapped(_, _)
Binds_Swapped(filtered_issues, rid) ==
    IF filtered_issues = <<>> THEN <<>>
    ELSE <<filtered_issues[1].issue_created_at, filtered_issues[1].title,
           filtered_issues[1].labels, rid, filtered_issues[1].number>>
         \o Binds_Swapped(Tail(filtered_issues), rid)

\* The values bound, in binding order.
RECURSIVE Binds(_, _)
Binds(filtered_issues, rid) ==
    IF filtered_issues = <<>> THEN <<>>
    ELSE <<filtered_issues[1].number, filtered_issues[1].title, filtered_issues[1].labels,
           rid, filtered_issues[1].issue_created_at>>
         \o Binds(Tail(filtered_issues), rid)

\* INSERT INTO issues (number, title, labels, repository_id, issue_created_at) VALUES ...
InsertedIssueRows(filtered_issues, rid) ==
    LET ph == Placeholders(filtered_issues)
        b  == Binds(filtered_issues, rid)
    IN  { [number           |-> b[ph[i][1]],
           title            |-> b[ph[i][2]],
           labels           |-> b[ph[i][3]],
           repository_id    |-> b[ph[i][4]],
           issue_created_at |-> b[ph[i][5]]] : i \in 1..Len(filtered_issues) }

(***************************************************************************)
(* The inputs drawn: urls, payloads, and what the remote API answers.      *)
(***************************************************************************)
UrlA == <<"o", "/", "a">>            \* "o/a"
UrlB == <<"o", "/", "b", "/">>       \* "o/b/"
UrlBad == <<"a">>                    \* "a": a single segment

RemoveEntries == { [label |-> "x", url |-> UrlA], [label |-> "y", url |-> UrlB] }
AddEntries == { [label |-> "x", url |-> UrlA], [label |-> "w", url |-> UrlBad] }

SeqsUpTo(S, n) == UNION { [1..m -> S] : m \in 0..n }

Attrs1 == [purposes |-> <<"p1">>, stack_levels |-> <<"s1">>,
           technologies |-> <<"t1">>, types |-> <<"y1">>]

ProjectKeys == { <<"kudos", "kudos">>, <<"dup", "dup">>, <<"kudos", "dup">> }

Payloads ==
    { [secret          |-> s,
       project_name    |-> key[1],
       project_slug    |-> key[2],
       repos_to_add    |-> a,
       repos_to_remove |-> r,
       attributes      |-> at] :
        s \in {SECRET, "wrong"}, key \in ProjectKeys,
        a \in SeqsUpTo(AddEntries, MaxRepos), r \in SeqsUpTo(RemoveEntries, MaxRepos),
        at \in {None, Some(Attrs1)} }

\* octocrab models::issues::Issue, the fields the code reads.
RemoteIssue(n, labelNames, pr) ==
    [number       |-> n,
     title        |-> "t" \o ToString(n),
     html_url     |-> "h" \o ToString(n),
     created_at   |-> 10 + n,
     updated_at   |-> 20 + n,
     user         |-> [login |-> "ann"],
     labels       |-> [i \in 1..Len(labelNames) |-> [name |-> labelNames[i], color |-> "c"]],
     pull_request |-> pr]

RemoteIssues ==
    { RemoteIssue(1, <<"bug", "help">>, None),
      RemoteIssue(2, <<"help">>, Some([url |-> "pull/2"])),
      RemoteIssue(3, <<"help", "bug">>, None) }

\* A page of the listing: distinct entries, newest first (the listing's default
\* order), at most per_page of them.
Pages ==
    { p \in SeqsUpTo(RemoteIssues, MaxPage) :
        /\ Len(p) <= PerPage
        /\ \A i, j \in 1..Len(p) : i < j => p[i].created_at > p[j].created_at }

(***************************************************************************)
(* The tables when the first payload arrives.  Row 1 of repositories was   *)
(* written with its url; row 2 is a row as this handler inserts them       *)
(* (slug and project_id only, main.rs:84-88) for the entry {x, UrlA},      *)
(* with the issue it imported.  No row carries UrlB.                       *)
(***************************************************************************)
NoAttrs == [purposes |-> <<>>, stack_levels |-> <<>>, technologies |-> <<>>, types |-> <<>>]

InitProjects ==
    (1 :> [name |-> "kudos", slug |-> "kudos", purposes |-> <<"p0">>,
           stack_levels |-> <<"s0">>, technologies |-> <<"t0">>, types |-> <<"y0">>])
    @@ (2 :> ([name |-> "dup", slug |-> "dup"] @@ NoAttrs))
    @@ (3 :> ([name |-> "dup", slug |-> "dup"] @@ NoAttrs))

InitRepositories ==
    { [id |-> 1, slug |-> "x", url |-> Some(UrlA), project_id |-> 1],
      [id |-> 2, slug |-> "x", url |-> None, project_id |-> 1] }

InitIssues ==
    { [number |-> 7, title |-> "old7", labels |-> <<"bug">>, repository_id |-> 1,
       issue_created_at |-> 1],
      [number |-> 8, title |-> "old8", labels |-> <<>>, repository_id |-> 1,
       issue_created_at |-> 2],
      [number |-> 1, title |-> "t1", labels |-> <<"bug", "help">>, repository_id |-> 2,
       issue_created_at |-> 11] }

NoResponse == [status |-> "none", body |-> ""]
Ok(text) == [status |-> "ok", body |-> text]
Err(text) == [status |-> "error", body |-> text]

Event(op, arg) == [op |-> op, arg |-> arg]

Init ==
    /\ projects = InitProjects
    /\ repositories = InitRepositories
    /\ issues = InitIssues
    /\ nextRepoId = 3
    /\ pc = "idle"
    /\ payload = CHOOSE p \in Payloads : TRUE
    /\ project_id = 0
    /\ rm = 1
    /\ k = 1
    /\ repo_id = 0
    /\ page = <<>>
    /\ total_issues_imported = 0
    /\ response = NoResponse
    /\ log = <<>>
    /\ store0 = [projects |-> InitProjects, repositories |-> InitRepositories,
                 issues |-> InitIssues]
    /\ fetched = <<>>
    /\ addedFor = { [id |-> 2, url |-> UrlA] }
    /\ failedAt = "none"
    /\ resent = "no"
    /\ url_arg = <<>>
    /\ located = NotCalled

(***************************************************************************)
(* The handler, main.rs:17-160, one action per statement.                  *)
(***************************************************************************)
Snapshot == [projects |-> projects, repositories |-> repositories, issues |-> issues]

\* A payload arrives and is parsed (main.rs:18-28).
Receive ==
    /\ pc = "idle"
    /\ \E p \in Payloads : payload' = p
    /\ pc' = "secret"
    /\ UNCHANGED <<store, locals, response, log, history, failedAt>>

Fail(text) ==
    /\ response' = Err(text)
    /\ failedAt' = pc
    /\ pc' = "done"

\* Variant of CheckSecret: the comparison is left out.
CheckSecret_Unchecked ==
    /\ pc = "secret"
    /\ log' = Append(log, Event("secret", 0))
    /\ pc' = "connect"
    /\ UNCHANGED <<store, payload, locals, response, history, failedAt>>

\* main.rs:30-33
CheckSecret ==
    /\ pc = "secret"
    /\ log' = Append(log, Event("secret", 0))
    /\ IF payload.secret # SECRET
       THEN Fail("Error: secrets don't match")
       ELSE pc' = "connect" /\ UNCHANGED <<response, failedAt>>
    /\ UNCHANGED <<store, payload, locals, history>>

\* main.rs:35
Connect ==
    /\ pc = "connect"
    /\ log' = Append(log, Event("connect", 0))
    /\ pc' = "lookup"
    /\ UNCHANGED <<store, payload, locals, response, history, failedAt>>

\* SELECT id FROM projects WHERE name = $1 AND slug = $2
MatchingProjects(name, slug) ==
    { id \in DOMAIN projects : projects[id].name = name /\ projects[id].slug = slug }

\* main.rs:38-44: fetch_one fails on no row, and otherwise yields the first
\* row the store returns, whichever that is.
LookupProject ==
    /\ pc = "lookup"
    /\ log' = Append(log, Event("lookup", 0))
    /\ LET found == MatchingProjects(payload.project_name, payload.project_slug)
       IN  IF found = {}
           THEN Fail("RowNotFound") /\ UNCHANGED project_id
           ELSE /\ \E id \in found : project_id' = id
                /\ pc' = "attributes"
                /\ UNCHANGED <<response, failedAt>>
    /\ UNCHANGED <<store, payload, rm, k, repo_id, page, total_issues_imported, history>>

\* Variant of UpdateProject: the rows are matched by name and slug, not by id.
UpdateProject_ByName(attributes, id) ==
    [p \in DOMAIN projects |->
        IF projects[p].name = projects[id].name /\ projects[p].slug = projects[id].slug
        THEN [projects[p] EXCEPT !.purposes = attributes.purposes,
                                 !.stack_levels = attributes.stack_levels,
                                 !.technologies = attributes.technologies,
                                 !.types = attributes.types]
        ELSE projects[p]]

\* UPDATE projects SET purposes = $1, stack_levels = $2, technologies = $3,
\* types = $4 WHERE id = $5
UpdateProject(attributes, id) ==
    [p \in DOMAIN projects |->
        IF p = id
        THEN [projects[p] EXCEPT !.purposes = attributes.purposes,
                                 !.stack_levels = attributes.stack_levels,
                                 !.technologies = attributes.technologies,
                                 !.types = attributes.types]
        ELSE projects[p]]

\* Variant of UpdateAttributes: absent attributes are written as empty lists.
UpdateAttributes_Defaulted ==
    /\ pc = "attributes"
    /\ projects' = UpdateProject(IF payload.attributes # None THEN payload.attributes[1]
                                 ELSE NoAttrs, project_id)
    /\ log' = Append(log, Event("update", 0))
    /\ pc' = "remove"
    /\ UNCHANGED <<repositories, issues, nextRepoId, payload, locals, response, history,
                   failedAt>>

\* main.rs:46-54
UpdateAttributes ==
    /\ pc = "attributes"
    /\ IF payload.attributes # None
       THEN /\ projects' = UpdateProject(payload.attributes[1], project_id)
            /\ log' = Append(log, Event("update", 0))
       ELSE UNCHANGED <<projects, log>>
    /\ pc' = "remove"
    /\ UNCHANGED <<repositories, issues, nextRepoId, payload, locals, response, history,
                   failedAt>>

\* Variant of RowsWithUrl: rows without url are taken to match.
RowsWithUrl_NullMatches(repos, url) == { r \in repos : r.url = Some(url) \/ r.url = None }

\* DELETE FROM repositories WHERE url = $1: the rows it deletes.  A NULL url
\* equals nothing.
RowsWithUrl(repos, url) == { r \in repos : r.url = Some(url) }

\* Variant of DeleteRepository: the delete does not cascade.
DeleteRepository_NoCascade ==
    /\ pc = "remove"
    /\ rm <= Len(payload.repos_to_remove)
    /\ repositories' = repositories \ RowsWithUrl(repositories, payload.repos_to_remove[rm].url)
    /\ log' = Append(log, Event("delete", rm))
    /\ rm' = rm + 1
    /\ UNCHANGED <<projects, issues, nextRepoId, pc, payload, project_id, k, repo_id, page,
                   total_issues_imported, response, history, failedAt>>

\* main.rs:56-62, one iteration.  The delete cascades to table issues
\* (main.rs:57).
DeleteRepository ==
    /\ pc = "remove"
    /\ rm <= Len(payload.repos_to_remove)
    /\ LET gone == RowsWithUrl(repositories, payload.repos_to_remove[rm].url)
       IN  /\ repositories' = repositories \ gone
           /\ issues' = { i \in issues : \A r \in gone : i.repository_id # r.id }
    /\ log' = Append(log, Event("delete", rm))
    /\ rm' = rm + 1
    /\ UNCHANGED <<projects, nextRepoId, pc, payload, project_id, k, repo_id, page,
                   total_issues_imported, response, history, failedAt>>

\* Variant of CheckReposToAdd: it does not wait for the end of the removals.
CheckReposToAdd_Early ==
    /\ pc = "remove"
    /\ IF payload.repos_to_add = <<>>
       THEN /\ response' = Ok("Total issues imported: " \o "total_issues_imported")
            /\ pc' = "done"
       ELSE /\ pc' = "locate"
            /\ UNCHANGED response
    /\ UNCHANGED <<store, payload, locals, log, history, failedAt>>

\* main.rs:64-79: the early return, else the client is built and the loop
\* over repos_to_add starts.
CheckReposToAdd ==
    /\ pc = "remove"
    /\ rm > Len(payload.repos_to_remove)
    /\ IF payload.repos_to_add = <<>>
       THEN /\ response' = Ok("Total issues imported: " \o "total_issues_imported")
            /\ pc' = "done"
       ELSE /\ pc' = "locate"
            /\ UNCHANGED response
    /\ UNCHANGED <<store, payload, locals, log, history, failedAt>>

\* Variant of LocateRepository: an entry whose url does not parse is skipped.
LocateRepository_Skipping ==
    /\ pc = "locate"
    /\ k <= Len(payload.repos_to_add)
    /\ IF from_url(payload.repos_to_add[k].url) = None
       THEN k' = k + 1 /\ UNCHANGED pc
       ELSE pc' = "insert_repository" /\ UNCHANGED k
    /\ UNCHANGED <<store, payload, project_id, rm, repo_id, page, total_issues_imported,
                   response, log, history, failedAt>>

\* main.rs:81-82
LocateRepository ==
    /\ pc = "locate"
    /\ k <= Len(payload.repos_to_add)
    /\ IF from_url(payload.repos_to_add[k].url) = None
       THEN Fail("Couldn't extract repo info from url")
       ELSE pc' = "insert_repository" /\ UNCHANGED <<response, failedAt>>
    /\ UNCHANGED <<store, payload, locals, log, history>>

\* types.rs:60-69 with the binds of main.rs:85-86: the row inserted.
NewRepositoryRow(id, repo, pid) ==
    [id |-> id, slug |-> repo.label, url |-> None, project_id |-> pid]

\* main.rs:84-89
InsertRepository ==
    /\ pc = "insert_repository"
    /\ repositories' = repositories \cup
            { NewRepositoryRow(nextRepoId, payload.repos_to_add[k], project_id) }
    /\ repo_id' = nextRepoId
    /\ nextRepoId' = nextRepoId + 1
    /\ addedFor' = addedFor \cup { [id |-> nextRepoId, url |-> payload.repos_to_add[k].url] }
    /\ log' = Append(log, Event("insert_repository", k))
    /\ pc' = "fetch"
    /\ UNCHANGED <<projects, issues, payload, project_id, rm, k, page, total_issues_imported,
                   response, store0, fetched, resent, failedAt, call>>

\* Variant of FetchIssues: the listing is requested a second time.
FetchIssues_Twice ==
    /\ pc = "fetch"
    /\ \E p \in Pages :
            /\ page' = p
            /\ fetched' = Append(fetched, [repo_id |-> repo_id, items |-> p])
    /\ log' = Append(Append(log, Event("fetch", k)), Event("fetch", k))
    /\ pc' = "import"
    /\ UNCHANGED <<store, payload, project_id, rm, k, repo_id, total_issues_imported,
                   response, store0, addedFor, resent, failedAt, call>>

\* main.rs:91-97: the remote API answers with a page.
FetchIssues ==
    /\ pc = "fetch"
    /\ \E p \in Pages :
            /\ page' = p
            /\ fetched' = Append(fetched, [repo_id |-> repo_id, items |-> p])
    /\ log' = Append(log, Event("fetch", k))
    /\ pc' = "import"
    /\ UNCHANGED <<store, payload, project_id, rm, k, repo_id, total_issues_imported,
                   response, store0, addedFor, resent, failedAt, call>>

\* Variant of ImportIssues: the statement is sent even with nothing to insert,
\* and the store rejects it.
ImportIssues_EmptyStatement ==
    /\ pc = "import"
    /\ log' = Append(log, Event("insert_issues", k))
    /\ LET filtered_issues == FilterIssues(page)
       IN  IF filtered_issues = <<>>
           THEN /\ Fail("sqlx::Error")
                /\ UNCHANGED <<issues, total_issues_imported, k>>
           ELSE /\ issues' = issues \cup InsertedIssueRows(filtered_issues, repo_id)
                /\ total_issues_imported' = total_issues_imported + Len(filtered_issues)
                /\ k' = k + 1
                /\ pc' = "locate"
                /\ UNCHANGED <<response, failedAt>>
    /\ UNCHANGED <<projects, repositories, nextRepoId, payload, project_id, rm, repo_id, page,
                   history>>

\* Variant of ImportIssues: the project's id is bound as repository_id.
ImportIssues_WrongParent ==
    /\ pc = "import"
    /\ LET filtered_issues == FilterIssues(page)
       IN  IF filtered_issues = <<>>
           THEN UNCHANGED <<issues, total_issues_imported, log>>
           ELSE /\ issues' = issues \cup InsertedIssueRows(filtered_issues, project_id)
                /\ total_issues_imported' = total_issues_imported + Len(filtered_issues)
                /\ log' = Append(log, Event("insert_issues", k))
    /\ k' = k + 1
    /\ pc' = "locate"
    /\ UNCHANGED <<projects, repositories, nextRepoId, payload, project_id, rm, repo_id, page,
                   response, history, failedAt>>

\* main.rs:99-148: filter, then one insert statement unless nothing is left.
ImportIssues ==
    /\ pc = "import"
    /\ LET filtered_issues == FilterIssues(page)
       IN  IF filtered_issues = <<>>
           THEN UNCHANGED <<issues, total_issues_imported, log>>
           ELSE /\ issues' = issues \cup InsertedIssueRows(filtered_issues, repo_id)
                /\ total_issues_imported' = total_issues_imported + Len(filtered_issues)
                /\ log' = Append(log, Event("insert_issues", k))
    /\ k' = k + 1
    /\ pc' = "locate"
    /\ UNCHANGED <<projects, repositories, nextRepoId, payload, project_id, rm, repo_id, page,
                   response, history, failedAt>>

\* main.rs:151-159
Respond ==
    /\ pc = "locate"
    /\ k > Len(payload.repos_to_add)
    /\ response' = Ok("Total issues imported: " \o ToString(total_issues_imported))
    /\ pc' = "done"
    /\ UNCHANGED <<store, payload, locals, log, history, failedAt>>

\* A statement is about to be sent to the store at this position.
AtStatement ==
    \/ pc \in {"connect", "lookup", "insert_repository"}
    \/ pc = "attributes" /\ payload.attributes # None
    \/ pc = "remove" /\ rm <= Len(payload.repos_to_remove)
    \/ pc = "import" /\ FilterIssues(page) # <<>>

\* Variant of StorageFailure: the invocation's writes are rolled back.
StorageFailure_RolledBack ==
    /\ AtStatement
    /\ Fail("sqlx::Error")
    /\ projects' = store0.projects
    /\ repositories' = store0.repositories
    /\ issues' = store0.issues
    /\ UNCHANGED <<nextRepoId, payload, locals, log, history>>

\* Variant of StorageFailure: a failing batch insert leaves its first row behind.
StorageFailure_PartialBatch ==
    /\ AtStatement
    /\ Fail("sqlx::Error")
    /\ issues' = IF pc = "import"
                 THEN issues \cup InsertedIssueRows(<<Head(FilterIssues(page))>>, repo_id)
                 ELSE issues
    /\ UNCHANGED <<projects, repositories, nextRepoId, payload, locals, log, history>>

\* The `?` after each .await of a store call: the call fails, nothing is
\* written, the invocation ends.
StorageFailure ==
    /\ AtStatement
    /\ Fail("sqlx::Error")
    /\ UNCHANGED <<store, payload, locals, log, history>>

\* The `?` of main.rs:97.
UpstreamFailure ==
    /\ pc = "fetch"
    /\ Fail("octocrab::Error")
    /\ UNCHANGED <<store, payload, locals, log, history>>

\* The sender delivers the same removal payload once more.
Redeliver ==
    /\ pc = "done"
    /\ resent = "no"
    /\ payload.repos_to_add = <<>>
    /\ resent' = response.status
    /\ pc' = "secret"
    /\ project_id' = 0 /\ rm' = 1 /\ k' = 1 /\ repo_id' = 0 /\ page' = <<>>
    /\ total_issues_imported' = 0
    /\ response' = NoResponse
    /\ log' = <<>>
    /\ store0' = Snapshot
    /\ fetched' = <<>>
    /\ failedAt' = "none"
    /\ UNCHANGED <<store, payload, addedFor, call>>

Next ==
    \/ Receive
    \/ CheckSecret
    \/ Connect
    \/ LookupProject
    \/ UpdateAttributes
    \/ DeleteRepository
    \/ CheckReposToAdd
    \/ LocateRepository
    \/ InsertRepository
    \/ FetchIssues
    \/ ImportIssues
    \/ Respond
    \/ StorageFailure
    \/ UpstreamFailure

Spec == Init /\ [][Next]_vars

\* Invocations, where a removal payload may be delivered twice.
NextRedelivery == Next \/ Redeliver

SpecRedelivery == Init /\ [][NextRedelivery]_vars

\* After a successful invocation that added repositories, a later payload asks
\* to remove the very entries that were added.
RemoveLater ==
    /\ pc = "done"
    /\ resent = "no"
    /\ response.status = "ok"
    /\ payload.repos_to_add # <<>>
    /\ payload' = [payload EXCEPT !.repos_to_remove = payload.repos_to_add,
                                  !.repos_to_add = <<>>,
                                  !.attributes = None]
    /\ resent' = "added"
    /\ pc' = "secret"
    /\ project_id' = 0 /\ rm' = 1 /\ k' = 1 /\ repo_id' = 0 /\ page' = <<>>
    /\ total_issues_imported' = 0
    /\ response' = NoResponse
    /\ log' = <<>>
    /\ store0' = Snapshot
    /\ fetched' = <<>>
    /\ failedAt' = "none"
    /\ UNCHANGED <<store, addedFor, call>>

NextRoundTrip == Next \/ RemoveLater

SpecRoundTrip == Init /\ [][NextRoundTrip]_vars

(***************************************************************************)
(* RepoInfo::from_url called on its own, on every short string over a      *)
(* small alphabet.                                                         *)
(***************************************************************************)
UrlChars == {"/", "a", "b"}

UrlStrings == UNION { [1..n -> UrlChars] : n \in 0..MaxUrlLen }

InitLocator ==
    /\ projects = InitProjects
    /\ repositories = InitRepositories
    /\ issues = InitIssues
    /\ nextRepoId = 3
    /\ pc = "idle"
    /\ payload = CHOOSE p \in Payloads : TRUE
    /\ project_id = 0
    /\ rm = 1
    /\ k = 1
    /\ repo_id = 0
    /\ page = <<>>
    /\ total_issues_imported = 0
    /\ response = NoResponse
    /\ log = <<>>
    /\ store0 = [projects |-> InitProjects, repositories |-> InitRepositories,
                 issues |-> InitIssues]
    /\ fetched = <<>>
    /\ addedFor = { [id |-> 2, url |-> UrlA] }
    /\ failedAt = "none"
    /\ resent = "no"
    /\ url_arg \in UrlStrings
    /\ located = NotCalled

\* types.rs:12-22
Locate ==
    /\ ~located.done
    /\ located' = [done |-> TRUE, result |-> from_url(url_arg)]
    /\ UNCHANGED <<store, pc, payload, locals, response, log, store0, fetched, addedFor,
                   failedAt, resent, url_arg>>

NextLocator == Locate

SpecLocator == InitLocator /\ [][NextLocator]_vars

\* The tables before the handler ever added the entry {x, UrlA}.
InitFresh ==
    /\ projects = InitProjects
    /\ repositories = { r \in InitRepositories : r.id = 1 }
    /\ issues = { i \in InitIssues : i.repository_id = 1 }
    /\ nextRepoId = 2
    /\ pc = "idle"
    /\ payload = CHOOSE p \in Payloads : TRUE
    /\ project_id = 0
    /\ rm = 1
    /\ k = 1
    /\ repo_id = 0
    /\ page = <<>>
    /\ total_issues_imported = 0
    /\ response = NoResponse
    /\ log = <<>>
    /\ store0 = [projects |-> projects, repositories |-> repositories, issues |-> issues]
    /\ fetched = <<>>
    /\ addedFor = {}
    /\ failedAt = "none"
    /\ resent = "no"
    /\ url_arg = <<>>
    /\ located = NotCalled

SpecFresh == InitFresh /\ [][Next]_vars

\* Under SpecFresh an invocation ends with exactly the tables Init starts
\* from: Init is a state the handler itself produces.
InitStoreProduced ==
    /\ pc = "done"
    /\ projects = InitProjects
    /\ repositories = InitRepositories
    /\ issues = InitIssues
    /\ nextRepoId = 3
    /\ addedFor = { [id |-> 2, url |-> UrlA] }

(***************************************************************************)
(* Vocabulary of the properties.                                           *)
(***************************************************************************)
Started == pc # "idle"
Succeeded == pc = "done" /\ response.status = "ok"
Failed == pc = "done" /\ response.status = "error"

LogIndex == 1..Len(log)
Issued(ops) == { i \in LogIndex : log[i].op \in ops }

MutationOps == {"update", "delete", "insert_repository", "insert_issues"}
AddOps == {"insert_repository", "fetch", "insert_issues"}

\* The step of section 4.1 an operation belongs to.
Rank(op) ==
    CASE op = "secret" -> 1
      [] op = "connect" -> 2
      [] op = "lookup" -> 3
      [] op = "update" -> 4
      [] op = "delete" -> 5
      [] OTHER -> 6

(***************************************************************************)
(* C1: a payload whose secret differs from the configured one ends with    *)
(* the authentication error, and the invocation changes no table, issues   *)
(* no statement and makes no remote call.                                  *)
(***************************************************************************)
C1_BadSecretTouchesNothing ==
    (Started /\ payload.secret # SECRET) =>
        /\ pc \in {"secret", "done"}
        /\ Snapshot = store0
        /\ \A i \in LogIndex : log[i].op = "secret"
        /\ pc = "done" => response = Err("Error: secrets don't match")

C1_Witness ==
    /\ Failed
    /\ payload.secret # SECRET
    /\ payload.repos_to_add # <<>>
    /\ payload.repos_to_remove # <<>>
    /\ payload.attributes # None

(***************************************************************************)
(* C2: within one invocation the operations are issued in the order secret *)
(* check, project lookup, attribute update, removals, additions: the       *)
(* update precedes every removal, and every removal of the payload has     *)
(* been issued before the first repository insert or remote call.          *)
(***************************************************************************)
C2_StepsInOrder ==
    /\ \A i, j \in LogIndex : i < j => Rank(log[i].op) <= Rank(log[j].op)
    /\ \A i, j \in LogIndex : (i < j /\ Rank(log[j].op) <= 4) => Rank(log[i].op) < Rank(log[j].op)
    /\ log # <<>> => log[1].op = "secret"
    /\ Issued(MutationOps \cup AddOps) # {} => Issued({"lookup"}) # {}
    /\ (Issued({"delete"} \cup AddOps) # {} /\ payload.attributes # None)
            => Issued({"update"}) # {}
    /\ Issued(AddOps) # {} =>
            { log[i].arg : i \in Issued({"delete"}) } = 1..Len(payload.repos_to_remove)

C2_Witness ==
    /\ Succeeded
    /\ Issued({"update"}) # {}
    /\ Cardinality(Issued({"delete"})) = 2
    /\ Cardinality(Issued({"insert_repository"})) = 2
    /\ Issued({"insert_issues"}) # {}

(***************************************************************************)
(* More vocabulary: what a fetched page should leave in table issues.      *)
(***************************************************************************)
Range(f) == { f[i] : i \in DOMAIN f }

LabelNames(item) == [i \in 1..Len(item.labels) |-> item.labels[i].name]

\* The row an entry of a page is persisted as, under repository rid.
RowOf(item, rid) ==
    [number |-> item.number, title |-> item.title, labels |-> LabelNames(item),
     repository_id |-> rid, issue_created_at |-> item.created_at]

NonPulls(items) == { it \in Range(items) : it.pull_request = None }

ExpectedRows(f) == { RowOf(it, f.repo_id) : it \in NonPulls(f.items) }

IssuesOf(rid) == { i \in issues : i.repository_id = rid }

RECURSIVE SumNonPulls(_)
SumNonPulls(fs) ==
    IF fs = <<>> THEN 0
    ELSE Cardinality(NonPulls(fs[1].items)) + SumNonPulls(Tail(fs))

\* The rows of a repositories table whose url column holds u.
RowsAt(repos, u) == { r \in repos : Len(r.url) = 1 /\ r.url[1] = u }

RemovedUrls == { e.url : e \in Range(payload.repos_to_remove) }
AddedUrls == { e.url : e \in Range(payload.repos_to_add) }

\* Row r stands for the repository at url u: its url column says so, or the
\* handler inserted it for an entry with that url.
RowIsFor(r, u) == r.url = Some(u) \/ [id |-> r.id, url |-> u] \in addedFor

\* Every statement of the removal loop has been executed.
RemovalDone == Started /\ rm > Len(payload.repos_to_remove)

(***************************************************************************)
(* C3: for a repository in both repos_to_remove and repos_to_add, after a  *)
(* successful invocation every row that stood for it before, and every     *)
(* issue of such a row, is gone, and a row created in this invocation      *)
(* holds exactly the issues imported for it.                               *)
(***************************************************************************)
C3_RemoveThenAddIsFresh ==
    Succeeded =>
        \A u \in RemovedUrls \cap AddedUrls :
            /\ \A r \in store0.repositories :
                    RowIsFor(r, u) => (r \notin repositories /\ IssuesOf(r.id) = {})
            /\ \E j \in 1..Len(fetched) :
                    /\ payload.repos_to_add[j].url = u
                    /\ \E r \in repositories \ store0.repositories : r.id = fetched[j].repo_id
                    /\ IssuesOf(fetched[j].repo_id) = ExpectedRows(fetched[j])

\* What does hold: the rows whose url column carries the url are replaced.
C3_RowsWithStoredUrlReplaced ==
    Succeeded =>
        \A u \in RemovedUrls \cap AddedUrls :
            /\ \A r \in RowsAt(store0.repositories, u) :
                    r \notin repositories /\ IssuesOf(r.id) = {}
            /\ \E j \in 1..Len(fetched) :
                    /\ payload.repos_to_add[j].url = u
                    /\ \E r \in repositories \ store0.repositories : r.id = fetched[j].repo_id
                    /\ IssuesOf(fetched[j].repo_id) = ExpectedRows(fetched[j])

(***************************************************************************)
(* C4: once the removal loop is through, every repository row whose url    *)
(* is that of an entry of repos_to_remove is absent from the store, and no *)
(* issue row references it.                                                *)
(***************************************************************************)
C4_RemovedRowsAndIssuesGone ==
    RemovalDone =>
        \A u \in RemovedUrls :
            \A r \in RowsAt(store0.repositories, u) :
                r \notin repositories /\ IssuesOf(r.id) = {}

C4_Witness ==
    /\ Succeeded
    /\ \E u \in RemovedUrls :
         \E r \in RowsAt(store0.repositories, u) :
            Cardinality({ i \in store0.issues : i.repository_id = r.id }) >= 2

(***************************************************************************)
(* C5: of a page whose import went through, an entry with a pull request   *)
(* association has no row in table issues under the new repository, and an *)
(* entry without one has its row, the labels being the label names in the  *)
(* order fetched.                                                          *)
(***************************************************************************)
C5_PullsDroppedIssuesKept ==
    \A j \in 1..Len(fetched) :
        j < k =>
            \A it \in Range(fetched[j].items) :
                IF it.pull_request # None
                THEN \A i \in IssuesOf(fetched[j].repo_id) : i.number # it.number
                ELSE RowOf(it, fetched[j].repo_id) \in issues

C5_Witness ==
    \E j \in 1..Len(fetched) :
        /\ j < k
        /\ \E it \in Range(fetched[j].items) : it.pull_request # None
        /\ \E it \in Range(fetched[j].items) :
                it.pull_request = None /\ Len(it.labels) = 2

(***************************************************************************)
(* C6: the total a successful invocation returns is the sum, over the      *)
(* entries of repos_to_add, of the number of entries of the fetched page   *)
(* that are no pull requests.                                              *)
(***************************************************************************)
C6_TotalIsSumOfNonPulls ==
    Succeeded =>
        response.body = "Total issues imported: " \o ToString(SumNonPulls(fetched))

\* What does hold: the sum is returned whenever repos_to_add is not empty.
C6_TotalWhenAdding ==
    (Succeeded /\ payload.repos_to_add # <<>>) =>
        /\ Len(fetched) = Len(payload.repos_to_add)
        /\ \A j \in 1..Len(fetched) : Len(fetched[j].items) <= PerPage
        /\ response.body = "Total issues imported: " \o ToString(SumNonPulls(fetched))

(***************************************************************************)
(* C7: with an empty repos_to_add no remote call is made and the total     *)
(* returned is 0.                                                          *)
(***************************************************************************)
C7_EmptyAddReturnsZero ==
    (Succeeded /\ payload.repos_to_add = <<>>) =>
        /\ Issued({"fetch"}) = {}
        /\ response.body = "Total issues imported: " \o ToString(0)

\* What does hold: no remote call, no insert.
C7_EmptyAddCallsNothing ==
    (Started /\ payload.repos_to_add = <<>>) => Issued(AddOps) = {}

(***************************************************************************)
(* C8: with attributes absent, the four attribute columns of every project *)
(* row stay as they were when the payload arrived.                         *)
(***************************************************************************)
AttributeColumns(row) == <<row.purposes, row.stack_levels, row.technologies, row.types>>

C8_NullAttributesKeepColumns ==
    (Started /\ payload.attributes = None) =>
        /\ DOMAIN projects = DOMAIN store0.projects
        /\ \A id \in DOMAIN projects :
                AttributeColumns(projects[id]) = AttributeColumns(store0.projects[id])

C8_Witness ==
    /\ Succeeded
    /\ payload.attributes = None
    /\ Issued({"delete"}) # {}
    /\ Issued({"insert_issues"}) # {}

(***************************************************************************)
(* C9: removing a url that matches no row is no error and changes no       *)
(* table; and a removal payload delivered a second time leaves the tables  *)
(* as the first delivery left them, the removed repositories still absent. *)
(***************************************************************************)
NoRowMatches == \A u \in RemovedUrls : RowsAt(store0.repositories, u) = {}

C9_RemovingAbsentIsNoopAndIdempotent ==
    /\ (Started /\ NoRowMatches /\ Issued(AddOps) = {}) =>
            /\ repositories = store0.repositories
            /\ issues = store0.issues
    /\ (Failed /\ failedAt = "remove") => response = Err("sqlx::Error")
    /\ (resent = "ok" /\ Succeeded) =>
            /\ repositories = store0.repositories
            /\ issues = store0.issues
            /\ \A u \in RemovedUrls : RowsAt(repositories, u) = {}

C9_Witness ==
    /\ resent = "ok"
    /\ Succeeded
    /\ NoRowMatches
    /\ RemovedUrls = {UrlA, UrlB}
    /\ Cardinality(Issued({"delete"})) = 2

(***************************************************************************)
(* C10: when the add-and-import of entry k fails, the invocation ends in   *)
(* error, the repository rows and issue rows of entries 1..k-1 are in the  *)
(* store, and nothing was issued for the entries after k.                  *)
(***************************************************************************)
AddFailed == Failed /\ failedAt \in {"locate", "insert_repository", "fetch", "import"}

C10_FailFastKeepsEarlierEntries ==
    AddFailed =>
        /\ k <= Len(payload.repos_to_add)
        /\ \A j \in 1..(k - 1) :
                /\ \E r \in repositories \ store0.repositories :
                        r.id = fetched[j].repo_id /\ r.slug = payload.repos_to_add[j].label
                /\ IssuesOf(fetched[j].repo_id) = ExpectedRows(fetched[j])
        /\ \A i \in Issued(AddOps) : log[i].arg <= k
        /\ Len(fetched) <= k
        /\ Cardinality(repositories \ store0.repositories) <= k
        /\ issues \ store0.issues = UNION { ExpectedRows(fetched[j]) : j \in 1..(k - 1) }

C10_Witness ==
    /\ AddFailed
    /\ k = 2
    /\ ExpectedRows(fetched[1]) # {}
    /\ Len(fetched) = 2

(***************************************************************************)
(* C11: when (project_name, project_slug) matches no project row or more   *)
(* than one, the invocation ends in error at the lookup and issues no      *)
(* update, no removal and no addition.                                     *)
(***************************************************************************)
ProjectsNamed == { id \in DOMAIN store0.projects :
                      /\ store0.projects[id].name = payload.project_name
                      /\ store0.projects[id].slug = payload.project_slug }

AbortedAtLookup ==
    /\ Failed
    /\ failedAt = "lookup"
    /\ Issued(MutationOps \cup AddOps) = {}
    /\ Snapshot = store0

C11_LookupAbortsUnlessOneRow ==
    (Issued({"lookup"}) # {} /\ Cardinality(ProjectsNamed) # 1) => AbortedAtLookup

\* What does hold: no matching row aborts the invocation at the lookup.
C11_NoRowAborts ==
    (Issued({"lookup"}) # {} /\ ProjectsNamed = {}) =>
        AbortedAtLookup /\ response = Err("RowNotFound")

(***************************************************************************)
(* C12: a repository row created for an entry {label, url} of repos_to_add *)
(* is deleted, with its imported issues, by a later invocation whose       *)
(* repos_to_remove holds an entry with the same url.                       *)
(***************************************************************************)
C12_AddThenRemoveRoundTrip ==
    (resent = "added" /\ RemovalDone) =>
        \A a \in addedFor :
            a.url \in RemovedUrls =>
                /\ \A r \in repositories : r.id # a.id
                /\ IssuesOf(a.id) = {}

(***************************************************************************)
(* C13: what the locator returns.  As claimed: one trailing slash is       *)
(* trimmed, the url is split on "/", the last two non-empty segments are   *)
(* owner and name, and the result is None exactly when fewer than two      *)
(* non-empty segments exist.  As amended: every trailing slash is trimmed, *)
(* the last two segments, empty or not, are owner and name, and the result *)
(* is None exactly when the trimmed url holds no "/".                      *)
(***************************************************************************)
Max(S) == CHOOSE m \in S : \A x \in S : x <= m

\* The maximal runs of characters other than "/", as <<first, last>>.
Runs(t) ==
    { ab \in (1..Len(t)) \X (1..Len(t)) :
        /\ ab[1] <= ab[2]
        /\ \A i \in ab[1]..ab[2] : t[i] # "/"
        /\ ab[1] = 1 \/ t[ab[1] - 1] = "/"
        /\ ab[2] = Len(t) \/ t[ab[2] + 1] = "/" }

ClaimedLocate(u) ==
    LET t == IF Len(u) > 0 /\ u[Len(u)] = "/" THEN SubSeq(u, 1, Len(u) - 1) ELSE u
        runs == Runs(t)
    IN  IF Cardinality(runs) < 2 THEN None
        ELSE LET last == CHOOSE r \in runs : \A q \in runs : q[1] <= r[1]
                 prev == CHOOSE r \in runs \ {last} : \A q \in runs \ {last} : q[1] <= r[1]
             IN  Some([owner |-> SubSeq(t, prev[1], prev[2]),
                       name |-> SubSeq(t, last[1], last[2])])

AmendedLocate(u) ==
    LET n == Max({0} \cup { i \in 1..Len(u) : u[i] # "/" })
        slashes == { i \in 1..n : u[i] = "/" }
    IN  IF slashes = {} THEN None
        ELSE LET p == Max(slashes)
                 q == Max({0} \cup (slashes \ {p}))
             IN  Some([owner |-> SubSeq(u, q + 1, p - 1), name |-> SubSeq(u, p + 1, n)])

C13_LocatorAsClaimed == located.done => located.result = ClaimedLocate(url_arg)

C13_LocatorAsAmended == located.done => located.result = AmendedLocate(url_arg)

C13_Witness ==
    /\ located.done
    /\ url_arg = <<"/", "a", "/", "/">>
    /\ located.result = Some([owner |-> <<>>, name |-> <<"a">>])

(***************************************************************************)
(* C14: when the url of entry k of repos_to_add does not parse, the        *)
(* invocation ends in error with no repository insert and no remote call   *)
(* issued for entry k; the loop never passes over such an entry.           *)
(***************************************************************************)
\* No "/" of u has a character other than "/" after it.
Unparsable(u) == \A i, j \in 1..Len(u) : (i < j /\ u[i] = "/") => u[j] = "/"

AddEntry(j) == payload.repos_to_add[j]

C14_UnparsableUrlAborts ==
    /\ \A i \in Issued(AddOps) : ~Unparsable(AddEntry(log[i].arg).url)
    /\ \A j \in 1..(k - 1) :
            /\ ~Unparsable(AddEntry(j).url)
            /\ \E i \in Issued({"insert_repository"}) : log[i].arg = j
    /\ pc \in {"insert_repository", "fetch", "import"} => ~Unparsable(AddEntry(k).url)
    /\ (Failed /\ failedAt = "locate") =>
            /\ Unparsable(AddEntry(k).url)
            /\ response = Err("Couldn't extract repo info from url")
            /\ \A i \in Issued(AddOps) : log[i].arg < k
    /\ Succeeded => \A j \in 1..Len(payload.repos_to_add) : ~Unparsable(AddEntry(j).url)

C14_Witness ==
    /\ Failed
    /\ failedAt = "locate"
    /\ k = 2
    /\ Issued({"insert_issues"}) # {}

(***************************************************************************)
(* C15: when no entry of the page fetched for an added repository is left  *)
(* after the filter, no issue insert is issued for it, the total stays as  *)
(* it was, the repository row stays, and the loop goes on to the next      *)
(* entry.                                                                  *)
(***************************************************************************)
InAddLoop == pc \in {"locate", "insert_repository", "fetch", "import"}

C15_EmptyBatchIsSkipped ==
    /\ \A j \in 1..Len(fetched) :
            (j < k /\ NonPulls(fetched[j].items) = {}) =>
                /\ \A i \in Issued({"insert_issues"}) : log[i].arg # j
                /\ \E r \in repositories : r.id = fetched[j].repo_id
                /\ IssuesOf(fetched[j].repo_id) = {}
    /\ (Failed /\ failedAt = "import") => NonPulls(page) # {}
    /\ (InAddLoop \/ Succeeded) =>
            total_issues_imported = SumNonPulls(SubSeq(fetched, 1, k - 1))

C15_Witness ==
    /\ Succeeded
    /\ Len(fetched) = 2
    /\ fetched[1].items # <<>>
    /\ NonPulls(fetched[1].items) = {}
    /\ NonPulls(fetched[2].items) # {}

(***************************************************************************)
(* C16: for the N >= 1 entries of a page left after the filter, the batch  *)
(* insert has N placeholder rows, row i (0-based) with the parameters      *)
(* 5i+1..5i+5, and the values bound at those positions are number, title,  *)
(* labels, repository_id and issue_created_at of the i-th entry left, the  *)
(* repository_id being the id of the row just inserted for the entry of    *)
(* repos_to_add.                                                           *)
(***************************************************************************)
NoPull(it) == it.pull_request = None

Kept(items) == SelectSeq(items, NoPull)

C16_BatchInsertPositions ==
    pc = "import" =>
        LET kept == Kept(page)
            fi   == FilterIssues(page)
            ph   == Placeholders(fi)
            b    == Binds(fi, repo_id)
            N    == Len(kept)
        IN  /\ DOMAIN ph = 1..N
            /\ Len(b) = 5 * N
            /\ \A i \in 0..(N - 1) :
                    /\ ph[i + 1] = <<5 * i + 1, 5 * i + 2, 5 * i + 3, 5 * i + 4, 5 * i + 5>>
                    /\ b[5 * i + 1] = kept[i + 1].number
                    /\ b[5 * i + 2] = kept[i + 1].title
                    /\ b[5 * i + 3] = LabelNames(kept[i + 1])
                    /\ b[5 * i + 4] = repo_id
                    /\ b[5 * i + 5] = kept[i + 1].created_at
            /\ InsertedIssueRows(fi, repo_id) = { RowOf(kept[i], repo_id) : i \in 1..N }
            /\ \E r \in repositories \ store0.repositories :
                    /\ r.id = repo_id
                    /\ r.slug = AddEntry(k).label
                    /\ \A q \in repositories : q.id <= r.id

C16_Witness ==
    /\ pc = "import"
    /\ Len(Kept(page)) = 2
    /\ Len(page) = 2

(***************************************************************************)
(* C17: with attributes in the payload and the project found, the update   *)
(* writes the payload's four attribute lists to the project row the lookup *)
(* resolved and to no other; without an update the table is as it was; and *)
(* no invocation creates or deletes a project row or changes a name or a   *)
(* slug.                                                                   *)
(***************************************************************************)
PastAttributes ==
    \/ pc \in {"remove", "locate", "insert_repository", "fetch", "import"}
    \/ Succeeded
    \/ Failed /\ failedAt \in {"remove", "locate", "insert_repository", "fetch", "import"}

C17_UpdateTouchesResolvedRowOnly ==
    /\ DOMAIN projects = DOMAIN store0.projects
    /\ \A p \in DOMAIN projects :
            /\ projects[p].name = store0.projects[p].name
            /\ projects[p].slug = store0.projects[p].slug
    /\ Issued({"update"}) = {} => projects = store0.projects
    /\ Issued({"update"}) # {} =>
            /\ payload.attributes # None
            /\ Cardinality(Issued({"update"})) = 1
            /\ project_id \in DOMAIN projects
            /\ projects[project_id].name = payload.project_name
            /\ projects[project_id].slug = payload.project_slug
            /\ AttributeColumns(projects[project_id]) =
                    <<payload.attributes[1].purposes, payload.attributes[1].stack_levels,
                      payload.attributes[1].technologies, payload.attributes[1].types>>
            /\ \A p \in DOMAIN projects \ {project_id} : projects[p] = store0.projects[p]
    /\ (PastAttributes /\ payload.attributes # None) => Issued({"update"}) # {}

C17_Witness ==
    /\ Succeeded
    /\ Issued({"update"}) # {}
    /\ Cardinality(ProjectsNamed) = 2
    /\ projects[project_id] # store0.projects[project_id]

(***************************************************************************)
(* C18: the additions run one after another in payload order.  For each    *)
(* entry the repository insert comes before its one remote call, which     *)
(* comes before its issue insert, if any, and nothing is done for entry    *)
(* i + 1 before everything for entry i is done.  A successful invocation   *)
(* has made exactly one remote call per entry of repos_to_add.             *)
(***************************************************************************)
StepOf(op) ==
    CASE op = "insert_repository" -> 1
      [] op = "fetch" -> 2
      [] op = "insert_issues" -> 3

FetchesFor(j) == { i \in Issued({"fetch"}) : log[i].arg = j }

C18_AdditionsOneAfterAnother ==
    /\ \A i, j \in Issued(AddOps) : i < j =>
            \/ log[i].arg < log[j].arg
            \/ log[i].arg = log[j].arg /\ StepOf(log[i].op) < StepOf(log[j].op)
    /\ \A i \in Issued(AddOps) :
            /\ log[i].arg \in 1..Len(payload.repos_to_add)
            /\ log[i].op = "fetch" =>
                    \E h \in Issued({"insert_repository"}) : h < i /\ log[h].arg = log[i].arg
            /\ log[i].op = "insert_issues" => \E h \in FetchesFor(log[i].arg) : h < i
            /\ \A e \in 1..(log[i].arg - 1) : Cardinality(FetchesFor(e)) = 1
    /\ Succeeded => \A e \in 1..Len(payload.repos_to_add) : Cardinality(FetchesFor(e)) = 1
    /\ Succeeded => Cardinality(Issued({"fetch"})) = Len(payload.repos_to_add)

C18_Witness ==
    /\ Succeeded
    /\ Len(payload.repos_to_add) = 2
    /\ Cardinality(Issued({"insert_issues"})) = 2
    /\ Cardinality(Issued({"fetch"})) = 2

(***************************************************************************)
(* C19: in every reachable state each issue row the invocation has created *)
(* belongs to a repository row the same invocation has created, and the    *)
(* issue rows of a repository the payload neither removes nor adds are the *)
(* ones it had when the invocation started.                                *)
(***************************************************************************)
IssuesIn(table, rid) == { i \in table : i.repository_id = rid }

CreatedRepositories == repositories \ store0.repositories

OldIds == { r.id : r \in store0.repositories }

C19_IssuesFollowTheirRepository ==
    /\ \A i \in issues \ store0.issues :
            /\ i.repository_id \notin OldIds
            /\ \E r \in CreatedRepositories : r.id = i.repository_id
            /\ \E e \in Issued({"insert_issues"}) :
                    \E h \in Issued({"insert_repository"}) : h < e /\ log[h].arg = log[e].arg
    /\ \A r \in store0.repositories :
            (\A u \in RemovedUrls : r.url # Some(u)) =>
                /\ r \in repositories
                /\ IssuesIn(issues, r.id) = IssuesIn(store0.issues, r.id)
    /\ \A r \in store0.repositories \cap repositories :
            IssuesIn(issues, r.id) = IssuesIn(store0.issues, r.id)

C19_Witness ==
    /\ Succeeded
    /\ issues \ store0.issues # {}
    /\ store0.issues \ issues # {}
    /\ \E r \in store0.repositories \cap repositories : IssuesIn(issues, r.id) # {}

(***************************************************************************)
(* C20: when the remote call or the batch insert of issues fails for entry *)
(* k of repos_to_add, the repository row inserted for entry k is still in  *)
(* the store and has no issue row: the batch is inserted whole or not at   *)
(* all, and the repository insert is not undone.                           *)
(***************************************************************************)
C20_FailedEntryKeepsBareRow ==
    (Failed /\ failedAt \in {"fetch", "import"}) =>
        /\ \E e \in Issued({"insert_repository"}) : log[e].arg = k
        /\ \A e \in Issued({"insert_issues"}) : log[e].arg < k
        /\ \E r \in CreatedRepositories :
                /\ r.id = repo_id
                /\ r.slug = AddEntry(k).label
                /\ r.project_id = project_id
        /\ IssuesIn(issues, repo_id) = {}
        /\ failedAt = "fetch" => Len(fetched) = k - 1
        /\ failedAt = "import" => /\ Len(fetched) = k
                                  /\ fetched[k].repo_id = repo_id
                                  /\ NonPulls(fetched[k].items) # {}

C20_Witness ==
    /\ Failed
    /\ failedAt = "import"
    /\ k = 2
    /\ Cardinality(NonPulls(page)) = 2
    /\ Cardinality(CreatedRepositories) = 2

====
